---- MODULE Spec2Model ----
(***************************************************************************)
(* Model of scripts/registry-smoke-install.py: the smoke-install pipeline  *)
(* of the crosspack registry (target resolution, artifact selection,       *)
(* download, checksum, archive extraction, binary presence check, batch    *)
(* reporting).                                                             *)
(*                                                                         *)
(* Text is modelled as a sequence of chunks (strings): archive member      *)
(* names and binary paths are written character by character, so that the *)
(* path parsing of pathlib is computed and not assumed; fixed names of the *)
(* program ("install", "payload") are one chunk.                           *)
(* An optional value (Python's None or a missing key) is a sequence of     *)
(* length 0 or 1.                                                          *)
(***************************************************************************)
EXTENDS Integers, Sequences, FiniteSets, TLC

VARIABLES
    platform,            \* <<platform.system(), platform.machine()>> of the runner
    argv,                \* parsed command line of main
    disk,                \* manifest files: argument string -> optional parsed document
    server,              \* what the network returns for each url: optional payload
    fs,                  \* the filesystem: absolute path -> node
    mpc,                 \* position of main
    deduped_manifests,   \* main: the deduplicated manifest arguments
    idx,                 \* main: index of the manifest being processed
    failures,            \* main: failure messages collected so far
    completed_checks,    \* main: number of checks that passed
    stdout,              \* lines printed on the standard stream
    stderr,              \* lines printed on the error stream
    rc,                  \* exit code of main (optional)
    stage,               \* smoke_manifest: pipeline state of the current manifest
    doc,                 \* smoke_manifest: the parsed manifest (optional)
    package_id,          \* smoke_manifest: manifest identity (optional)
    artifact,            \* smoke_manifest: the chosen artifact (optional)
    payload,             \* bytes of the downloaded payload file (optional)
    result,              \* (ok, message) of the current check (optional)
    ops,                 \* stages performed for the current manifest, in order
    fetched              \* the urls requested from the network, in order

vars == <<platform, argv, disk, server, fs, mpc, deduped_manifests, idx, failures,
          completed_checks, stdout, stderr, rc, stage, doc, package_id, artifact,
          payload, result, ops, fetched>>

None == <<>>
Some(v) == <<v>>
IsSome(o) == o # <<>>
Get(o) == o[1]

\* ------------------------------------------------------------------ bounds
MaxNameLen == 4      \* characters of an archive member name
MaxStrip == 1        \* largest strip_components value
MaxArtifacts == 3    \* artifacts of a manifest
MaxBinaries == 2     \* declared binaries of an artifact
MaxManifests == 3    \* manifest arguments of a batch

\* ------------------------------------------------------------------ text
RECURSIVE Flatten(_)
\* concatenation of a sequence of texts
Flatten(ss) == IF ss = <<>> THEN <<>> ELSE Head(ss) \o Flatten(Tail(ss))

RECURSIVE JoinWith(_, _)
\* sep.join(ss)
JoinWith(ss, sep) ==
    IF ss = <<>> THEN <<>>
    ELSE IF Len(ss) = 1 THEN ss[1]
    ELSE ss[1] \o sep \o JoinWith(Tail(ss), sep)

RECURSIVE SplitSlash(_)
\* name.split("/"): the (possibly empty) texts between the slashes
SplitSlash(name) ==
    IF name = <<>> THEN << <<>> >>
    ELSE IF Head(name) = "/" THEN << <<>> >> \o SplitSlash(Tail(name))
    ELSE LET rest == SplitSlash(Tail(name))
         IN  << <<Head(name)>> \o rest[1] >> \o Tail(rest)

RECURSIVE LeadingSlashes(_)
LeadingSlashes(name) ==
    IF name # <<>> /\ Head(name) = "/" THEN 1 + LeadingSlashes(Tail(name)) ELSE 0

DOT == <<".">>
DOTDOT == <<".", ".">>
ROOT == <<"/">>
ROOT2 == <<"/", "/">>

\* PurePosixPath(name).parts: the root ("/", or "//" for exactly two leading
\* slashes) followed by the segments that are neither empty nor "."
PathParts(name) ==
    LET k == LeadingSlashes(name)
        root == IF k = 0 THEN <<>> ELSE IF k = 2 THEN <<ROOT2>> ELSE <<ROOT>>
        segs == SelectSeq(SplitSlash(name), LAMBDA s : s # <<>> /\ s # DOT)
    IN  root \o segs

IsRoot(part) == part = ROOT \/ part = ROOT2

\* str(PurePosixPath(*parts))
PathStr(parts) ==
    IF parts = <<>> THEN DOT
    ELSE IF IsRoot(parts[1]) THEN parts[1] \o JoinWith(Tail(parts), <<"/">>)
    ELSE JoinWith(parts, <<"/">>)

\* base / other for pathlib paths given as parts: an absolute right operand
\* replaces the left one
PathJoin(base, other) ==
    IF other # <<>> /\ IsRoot(other[1]) THEN other ELSE base \o other

\* path.parent
PathParent(parts) ==
    IF parts = <<>> \/ (Len(parts) = 1 /\ IsRoot(parts[1])) THEN parts
    ELSE SubSeq(parts, 1, Len(parts) - 1)

Drop(s, n) == SubSeq(s, n + 1, Len(s))

\* ------------------------------------------------------------------ strip_name
\* Mutant: an entry with exactly strip_components segments is kept.
strip_name_off_by_one(name, strip_components) ==
    LET parts == SelectSeq(PathParts(name), LAMBDA p : p # <<>> /\ p # DOT)
    IN  IF Len(parts) < strip_components \/ parts = <<>> THEN None
        ELSE IF parts[1] = ROOT \/ \E i \in 1..Len(parts) : parts[i] = DOTDOT THEN None
        ELSE Some(PathStr(Drop(parts, strip_components)))

\* strip_name(name, strip_components): the extraction-relative path, or None
strip_name(name, strip_components) ==
    LET parts == SelectSeq(PathParts(name), LAMBDA p : p # <<>> /\ p # DOT)
    IN  IF Len(parts) <= strip_components THEN None
        ELSE IF parts[1] = ROOT \/ \E i \in 1..Len(parts) : parts[i] = DOTDOT THEN None
        ELSE Some(PathStr(Drop(parts, strip_components)))

\* ------------------------------------------------------------------ filesystem
\* A node of the filesystem. origin is "host" for what exists before the
\* program runs and "program" for what the program created or wrote.
Node(kind, x, origin) == [kind |-> kind, x |-> x, origin |-> origin]
DirNode == Node("dir", TRUE, "program")
Parent(p) == IF p = <<>> THEN <<>> ELSE SubSeq(p, 1, Len(p) - 1)
IsPrefix(p, q) == Len(p) <= Len(q) /\ SubSeq(q, 1, Len(p)) = p

TMP == <<"tmp">>
INSTALL == <<"install">>
PAYLOAD == <<"payload">>
HostFile == << <<"a", "a">> >>      \* a file of the host, outside every staging area

HostFs ==
    (<<>> :> Node("dir", TRUE, "host"))
    @@ (<<TMP>> :> Node("dir", TRUE, "host"))
    @@ (HostFile :> Node("file", FALSE, "host"))
\* a host on which tempfile finds no usable temporary directory
NoTmpFs ==
    (<<>> :> Node("dir", TRUE, "host"))
    @@ (HostFile :> Node("file", FALSE, "host"))

\* The outcome of an operation on the filesystem: the filesystem afterwards
\* and, when it raised, the exception.
Raised(f, exc) == [ok |-> FALSE, fs |-> f, exc |-> exc]
Done(f) == [ok |-> TRUE, fs |-> f, exc |-> ""]

\* Segments of an absolute pathlib path, as the kernel walks them.
Segs(parts) == IF parts # <<>> /\ IsRoot(parts[1]) THEN Tail(parts) ELSE parts

RECURSIVE Resolve(_, _, _)
\* Kernel path resolution from directory cur: the kind found ("dir", "file" or
\* "missing"), where, and for a missing path whether only the last segment is
\* missing (so that it can be created).
Resolve(f, cur, segs) ==
    IF segs = <<>> THEN [kind |-> f[cur].kind, at |-> cur, creatable |-> FALSE]
    ELSE IF f[cur].kind # "dir" THEN [kind |-> "missing", at |-> cur, creatable |-> FALSE]
    ELSE IF Head(segs) = DOTDOT THEN Resolve(f, Parent(cur), Tail(segs))
    ELSE IF Append(cur, Head(segs)) \in DOMAIN f
       THEN Resolve(f, Append(cur, Head(segs)), Tail(segs))
    ELSE [kind |-> "missing", at |-> Append(cur, Head(segs)), creatable |-> Len(segs) = 1]

\* os.stat(path)
Stat(f, parts) == Resolve(f, <<>>, Segs(parts))

\* Path.exists() and Path.is_file()
IsFile(f, parts) == Stat(f, parts).kind = "file"

RECURSIVE MkdirWalk(_, _, _)
MkdirWalk(f, cur, segs) ==
    IF segs = <<>> THEN Done(f)
    ELSE IF Head(segs) = DOTDOT THEN MkdirWalk(f, Parent(cur), Tail(segs))
    ELSE IF Append(cur, Head(segs)) \notin DOMAIN f
       THEN MkdirWalk((Append(cur, Head(segs)) :> DirNode) @@ f,
                      Append(cur, Head(segs)), Tail(segs))
    ELSE IF f[Append(cur, Head(segs))].kind = "dir"
       THEN MkdirWalk(f, Append(cur, Head(segs)), Tail(segs))
    ELSE Raised(f, "FileExistsError")

\* Path.mkdir(parents=True, exist_ok=True): raises when a component of the
\* path is a file
Mkdir(f, parts) == MkdirWalk(f, <<>>, Segs(parts))

\* open(path, "wb") where the kernel resolved path to r, then write and close:
\* creates or truncates the file
OpenWriteAt(f, r) ==
    IF r.kind = "file" THEN Done([f EXCEPT ![r.at].origin = "program"])
    ELSE IF r.kind = "missing" /\ r.creatable
       THEN Done((r.at :> Node("file", FALSE, "program")) @@ f)
    ELSE Raised(f, IF r.kind = "dir" THEN "IsADirectoryError" ELSE "FileNotFoundError")

\* Path.open("wb")
OpenWrite(f, parts) == OpenWriteAt(f, Stat(f, parts))

ChmodAt(f, r, x) ==
    IF r.kind = "missing" THEN Raised(f, "FileNotFoundError")
    ELSE Done([f EXCEPT ![r.at].x = x])

\* Path.chmod(Path.stat().st_mode | 0o755)
ChmodExec(f, parts) == ChmodAt(f, Stat(f, parts), TRUE)

\* shutil.copy2(src, dest), dest not being a directory and the kernel having
\* resolved src to s and dest to r: SameFileError when they are one file,
\* else the bytes and then the mode of src (not executable) are copied
CopyFileAt(f, s, r) ==
    IF r.kind = "file" /\ r.at = s.at THEN Raised(f, "SameFileError")
    ELSE IF ~OpenWriteAt(f, r).ok THEN OpenWriteAt(f, r)
    ELSE Done([OpenWriteAt(f, r).fs EXCEPT ![r.at].x = FALSE])

\* shutil.copy2(src, dest): into dest/<basename of src> when dest is a directory
Copy2(f, src, dest) ==
    CopyFileAt(f, Stat(f, src),
               Stat(f, IF Stat(f, dest).kind = "dir" THEN Append(dest, src[Len(src)])
                       ELSE dest))

\* shutil.rmtree(root)
RemoveTree(f, root) == [p \in {q \in DOMAIN f : ~IsPrefix(root, q)} |-> f[p]]

\* ------------------------------------------------------------------ extract_archive
\* A payload is the downloaded bytes: fmt says what the bytes are ("zip", "gz"
\* for a gzip tar, "xz" for an xz tar, "raw" for anything else) and members
\* lists the archive's entries. A member has a name, a type ("reg", "dir",
\* "fifo" for a type tarfile.extractfile returns None for, "badlink" for a
\* link whose target is not in the archive) and x, the executable bits of its
\* mode. zip entries have neither a type nor a mode here: a zip entry is a
\* directory when its name ends with a slash.
Member(name, type, x) == [name |-> name, type |-> type, x |-> x]
Payload(fmt, members) == [fmt |-> fmt, members |-> members]

\* Lines 134-135: the executable bit of a tar member
TarMode(wrote, member, target) ==
    IF ~wrote.ok \/ ~member.x THEN wrote ELSE ChmodExec(wrote.fs, target)

\* Lines 129-133: after the parent directory was made
TarWrite(made, member, target) ==
    IF ~made.ok \/ member.type = "fifo" THEN made
    ELSE IF member.type = "badlink" THEN Raised(made.fs, "KeyError")
    ELSE TarMode(OpenWrite(made.fs, target), member, target)

\* Lines 122-135, target being dest / stripped
TarMemberAt(f, member, target) ==
    IF member.type = "dir" THEN Mkdir(f, target)
    ELSE TarWrite(Mkdir(f, PathParent(target)), member, target)

\* ZipInfo.is_dir()
ZipIsDir(name) == name # <<>> /\ name[Len(name)] = "/"

\* Lines 147-148
ZipWrite(made, target) == IF ~made.ok THEN made ELSE OpenWrite(made.fs, target)

\* Lines 142-148, target being dest / stripped
ZipMemberAt(f, member, target) ==
    IF ZipIsDir(member.name) THEN Mkdir(f, target)
    ELSE ZipWrite(Mkdir(f, PathParent(target)), target)

\* Lines 117-122 and 139-142: skip the member or place it under dest
MemberTo(f, dest, member, stripped, zip) ==
    IF (~zip /\ member.name = <<>>) \/ stripped = None THEN Done(f)
    ELSE IF zip THEN ZipMemberAt(f, member, PathJoin(dest, PathParts(Get(stripped))))
    ELSE TarMemberAt(f, member, PathJoin(dest, PathParts(Get(stripped))))

\* One iteration of the tar loop (zip FALSE) or of the zip loop (zip TRUE).
ExtractMember(f, dest, member, strip_components, zip) ==
    MemberTo(f, dest, member, strip_name(member.name, strip_components), zip)

RECURSIVE ExtractMembers(_, _, _, _, _)
\* The member loop from outcome st on: it stops at the first member that raises.
ExtractMembers(st, dest, members, strip_components, zip) ==
    IF ~st.ok \/ members = <<>> THEN st
    ELSE ExtractMembers(ExtractMember(st.fs, dest, Head(members), strip_components, zip),
                        dest, Tail(members), strip_components, zip)

TarArchives == {"tar.gz", "tgz", "tar.xz"}
TarFmt(archive) == IF archive = "tar.xz" THEN "xz" ELSE "gz"

\* extract_archive(src, dest, archive, strip_components) on filesystem f, src
\* being the bytes of the payload file
extract_archive(f, src, dest, archive, strip_components) ==
    IF archive \notin TarArchives \cup {"zip"} THEN Raised(f, "Unsupported archive format")
    ELSE IF archive \in TarArchives /\ src.fmt # TarFmt(archive) THEN Raised(f, "ReadError")
    ELSE IF archive = "zip" /\ src.fmt # "zip" THEN Raised(f, "BadZipFile")
    ELSE ExtractMembers(Done(f), dest, src.members, strip_components, archive = "zip")

\* ------------------------------------------------------------------ target resolver
\* str.lower() on the names platform reports
Lower(s) ==
    CASE s = "Linux" -> "linux"
      [] s = "Darwin" -> "darwin"
      [] s = "Windows" -> "windows"
      [] s = "FreeBSD" -> "freebsd"
      [] s = "AMD64" -> "amd64"
      [] s = "ARM64" -> "arm64"
      [] OTHER -> s

X86 == {"x86_64", "amd64"}
ARM == {"aarch64", "arm64"}

\* runner_target(): the canonical triple of the runner, or None
runner_target ==
    LET system == Lower(platform[1])
        machine == Lower(platform[2])
    IN  IF system = "linux" /\ machine \in X86 THEN Some("x86_64-unknown-linux-gnu")
        ELSE IF system = "linux" /\ machine \in ARM THEN Some("aarch64-unknown-linux-gnu")
        ELSE IF system = "darwin" /\ machine \in X86 THEN Some("x86_64-apple-darwin")
        ELSE IF system = "darwin" /\ machine \in ARM THEN Some("aarch64-apple-darwin")
        ELSE IF system = "windows" /\ machine \in X86 THEN Some("x86_64-pc-windows-msvc")
        ELSE IF system = "windows" /\ machine \in ARM THEN Some("aarch64-pc-windows-msvc")
        ELSE None

\* ------------------------------------------------------------------ artifact selector
Matches(artifacts, target) == {i \in 1..Len(artifacts) : artifacts[i].target = target}
FirstMatch(artifacts, target) ==
    CHOOSE i \in Matches(artifacts, target) : \A j \in Matches(artifacts, target) : i <= j

\* Mutant: the last matching artifact wins.
choose_artifact_last(artifacts, target, require_target) ==
    IF IsSome(target)
       THEN IF Matches(artifacts, target) # {}
               THEN Some(artifacts[CHOOSE i \in Matches(artifacts, target) :
                                      \A j \in Matches(artifacts, target) : i >= j])
            ELSE IF require_target THEN None
            ELSE Some(artifacts[1])
    ELSE Some(artifacts[1])

\* Mutant: the fallback takes the last artifact of the list.
choose_artifact_fallback_last(artifacts, target, require_target) ==
    IF IsSome(target)
       THEN IF Matches(artifacts, target) # {}
               THEN Some(artifacts[FirstMatch(artifacts, target)])
            ELSE IF require_target THEN None
            ELSE Some(artifacts[Len(artifacts)])
    ELSE Some(artifacts[Len(artifacts)])

\* Mutant: require_target is ignored, the selector always falls back.
choose_artifact_never_strict(artifacts, target, require_target) ==
    IF IsSome(target) /\ Matches(artifacts, target) # {}
       THEN Some(artifacts[FirstMatch(artifacts, target)])
    ELSE Some(artifacts[1])

\* choose_artifact(artifacts, target=..., require_target=...): the artifact to
\* install, or None. target is the optional runner triple.
choose_artifact(artifacts, target, require_target) ==
    IF IsSome(target)
       THEN IF Matches(artifacts, target) # {}
               THEN Some(artifacts[FirstMatch(artifacts, target)])
            ELSE IF require_target THEN None
            ELSE Some(artifacts[1])
    ELSE Some(artifacts[1])

\* ------------------------------------------------------------------ checksum
\* hashlib.sha256 over the payload bytes, as lowercase hex. The digest is a
\* symbolic term over the bytes (distinct payloads have distinct digests);
\* upper tells whether hex letters are written in upper case.
sha256_file(bytes) == [of |-> bytes, upper |-> FALSE]
\* str.lower() on a hex digest
LowerHex(d) == [d EXCEPT !.upper = FALSE]

\* ------------------------------------------------------------------ identity, messages
Blank(s) == s \in {"", " "}
SUFFIXES == {".toml"}
\* Path(arg).stem and Path(arg).parent.name of a manifest argument
Stem(arg) ==
    LET parts == PathParts(arg)
        last == IF parts = <<>> THEN <<>> ELSE parts[Len(parts)]
    IN  IF Len(last) >= 2 /\ last[Len(last)] \in SUFFIXES
           THEN SubSeq(last, 1, Len(last) - 1)
        ELSE last
ParentName(arg) ==
    LET parent == PathParent(PathParts(arg))
    IN  IF parent = <<>> \/ IsRoot(parent[Len(parent)]) THEN <<>> ELSE parent[Len(parent)]

\* fallback_manifest_identifier(path)
fallback_manifest_identifier(path) ==
    (IF ParentName(path) # <<>> THEN ParentName(path) ELSE <<"unknown-package">>)
    \o <<"@">>
    \o (IF Stem(path) # <<>> THEN Stem(path) ELSE <<"unknown-version">>)

\* manifest_identifier(doc, path)
manifest_identifier(d, path) ==
    IF IsSome(d.name) /\ ~Blank(Get(d.name)) /\ IsSome(d.version) /\ ~Blank(Get(d.version))
       THEN <<Get(d.name), "@", Get(d.version)>>
    ELSE fallback_manifest_identifier(path)

\* best_effort_manifest_identifier(path): reads the manifest again
best_effort_manifest_identifier(path) ==
    IF disk[path] = None THEN fallback_manifest_identifier(path)
    ELSE manifest_identifier(Get(disk[path]), path)

\* The variable parts of a failure reason; what is its fixed wording.
Reason(what) ==
    [what |-> what, url |-> None, expected |-> None, actual |-> None,
     target |-> None, missing |-> <<>>, exc |-> ""]

\* failure_message(path, package_id, reason, hint=..., failing_binary=...):
\* the parts of the text, in the order of the text
failure_message(path, id, reason, hint, failing_binary) ==
    [path |-> path, package_id |-> id, status |-> "smoke-install failed",
     reason |-> reason, failing_binary |-> failing_binary, hint |-> Some(hint)]

\* the text smoke_manifest returns on success
success_message(path, id, artifact_target) ==
    [path |-> path, package_id |-> id, status |-> "smoke-install ok",
     reason |-> [Reason("via target=") EXCEPT !.target = Some(artifact_target)],
     failing_binary |-> <<>>, hint |-> None]

HINT_NO_ARTIFACTS == "add at least one [[artifacts]] entry with url, sha256, and binaries metadata"
HINT_NO_TARGET == "add an artifact for this runner target or run without --require-runner-target"
HINT_CHECKSUM == "update artifacts[].sha256 to match the published asset bytes for this target"
HINT_MISSING == "verify artifacts[].binaries[].path and strip_components against the extracted archive layout"
HINT_CRASH == "run scripts/registry-validate.py for the manifest and verify artifact metadata fields"

\* Mutant: the exception text is left out of the crash record.
crash_message_without_text(path, exc) ==
    failure_message(path, best_effort_manifest_identifier(path),
                    Reason("smoke-install crashed"), HINT_CRASH, <<>>)

\* main's except clause: the failure recorded for an exception of smoke_manifest
crash_message(path, exc) ==
    failure_message(path, best_effort_manifest_identifier(path),
                    [Reason("smoke-install crashed") EXCEPT !.exc = exc],
                    HINT_CRASH, <<>>)

Ok(m) == Some([ok |-> TRUE, message |-> m])
Fail(m) == Some([ok |-> FALSE, message |-> m])

\* ------------------------------------------------------------------ staging, binaries
\* tempfile.TemporaryDirectory(prefix="registry-smoke-") of the i-th manifest
TmpDir(i) == <<ROOT, TMP, <<"registry-smoke-", ToString(i)>> >>
InstallRoot(i) == Append(TmpDir(i), INSTALL)
PayloadPath(i) == Append(TmpDir(i), PAYLOAD)
CanaryTmpDir == <<ROOT, TMP, <<"registry-smoke-app-bundle-">> >>

\* Mutant: the staging area is left behind.
Cleanup_never(f, tmpdir) == f

\* leaving the `with tempfile.TemporaryDirectory(...)` block
Cleanup(f, tmpdir) == RemoveTree(f, Segs(tmpdir))

\* Lines 193-197: the temporary directory and the install root in it;
\* tempfile raises when there is no directory to create it in
Staged(f, tmpdir) ==
    IF Stat(f, PathParent(tmpdir)).kind # "dir" THEN Raised(f, "FileNotFoundError")
    ELSE Mkdir((Segs(tmpdir) :> DirNode) @@ f, Append(tmpdir, INSTALL))

\* Lines 219-220
CopyChmod(made, src, dest) ==
    IF ~made.ok THEN made
    ELSE IF ~Copy2(made.fs, src, dest).ok THEN Copy2(made.fs, src, dest)
    ELSE ChmodExec(Copy2(made.fs, src, dest).fs, dest)

\* Lines 216-220: one iteration of the bare-binary loop, dest being
\* install_root / binary_path
CopyBinary(f, src, dest) == CopyChmod(Mkdir(f, PathParent(dest)), src, dest)

RECURSIVE CopyBinaries(_, _, _, _)
\* The bare-binary loop of smoke_manifest from outcome st on: the payload is
\* copied to every declared binary path and made executable.
CopyBinaries(st, src, install_root, binaries) ==
    IF ~st.ok \/ binaries = <<>> THEN st
    ELSE CopyBinaries(CopyBinary(st.fs, src,
                                 PathJoin(install_root, PathParts(Head(binaries).path))),
                      src, install_root, Tail(binaries))

Paths(binaries) == [i \in 1..Len(binaries) |-> binaries[i].path]

\* The presence loop of smoke_manifest: the declared paths that are not
\* regular files, in declaration order.
MissingBinaries(f, install_root, binaries) ==
    Paths(SelectSeq(binaries,
              LAMBDA b : ~IsFile(f, PathJoin(install_root, PathParts(b.path)))))

\* ------------------------------------------------------------------ smoke_manifest
CurrentPath == deduped_manifests[idx]
InManifest == mpc = "loop" /\ idx <= Len(deduped_manifests)
ArtifactTarget(a) == IF IsSome(a.target) THEN Get(a.target) ELSE "unknown"

LoadDoc(d, id) ==
    /\ doc' = Some(d)
    /\ package_id' = Some(id)
    /\ IF d.artifacts = <<>>
          THEN /\ stage' = "Failed"
               /\ result' = Fail(failure_message(CurrentPath, id,
                       Reason("no artifacts available for smoke-install"),
                       HINT_NO_ARTIFACTS, <<>>))
       ELSE /\ stage' = "Loaded"
            /\ UNCHANGED result

\* Lines 154-166: parse the manifest, compute its identity, require artifacts.
Load ==
    /\ InManifest /\ stage = "idle"
    /\ ops' = Append(ops, "load")
    /\ IF disk[CurrentPath] = None
          THEN /\ stage' = "Failed"
               /\ result' = Fail(crash_message(CurrentPath, "TOMLDecodeError"))
               /\ UNCHANGED <<doc, package_id>>
       ELSE LoadDoc(Get(disk[CurrentPath]),
                    manifest_identifier(Get(disk[CurrentPath]), CurrentPath))
    /\ UNCHANGED <<platform, argv, disk, server, fs, mpc, deduped_manifests, idx,
                   failures, completed_checks, stdout, stderr, rc, artifact, payload, fetched>>

Chosen(resolved_runner_target, chosen) ==
    /\ artifact' = chosen
    /\ IF chosen = None
          THEN /\ stage' = "Failed"
               /\ result' = Fail(failure_message(CurrentPath, Get(package_id),
                       [Reason("no artifact matched runner target=") EXCEPT
                           !.target = IF IsSome(resolved_runner_target)
                                         THEN resolved_runner_target
                                      ELSE Some("unknown-runner-target")],
                       HINT_NO_TARGET, <<>>))
       ELSE /\ stage' = "ArtifactChosen"
            /\ UNCHANGED result

\* Lines 168-184: resolve the runner target and choose the artifact.
Choose ==
    /\ InManifest /\ stage = "Loaded"
    /\ ops' = Append(ops, "choose")
    /\ Chosen(runner_target,
              choose_artifact(Get(doc).artifacts, runner_target,
                              argv.require_runner_target))
    /\ UNCHANGED <<platform, argv, disk, server, fs, mpc, deduped_manifests, idx,
                   failures, completed_checks, stdout, stderr, rc, doc, package_id,
                   payload, fetched>>

Downloading(a, staged) ==
    IF a.url = None \/ a.sha256 = None
       THEN /\ stage' = "Failed"
            /\ result' = Fail(crash_message(CurrentPath, "KeyError"))
            /\ UNCHANGED <<fs, payload, ops, fetched>>
    ELSE IF ~staged.ok
       THEN /\ stage' = "Failed"
            /\ result' = Fail(crash_message(CurrentPath, staged.exc))
            /\ UNCHANGED <<fs, payload, ops, fetched>>
    ELSE IF server[Get(a.url)] = None
       THEN /\ stage' = "Failed"
            /\ result' = Fail(crash_message(CurrentPath, "URLError"))
            /\ fs' = Cleanup(staged.fs, TmpDir(idx))
            /\ ops' = Append(ops, "download")
            /\ fetched' = Append(fetched, Get(a.url))
            /\ UNCHANGED payload
    ELSE /\ stage' = "Downloaded"
         /\ fs' = OpenWrite(staged.fs, PayloadPath(idx)).fs
         /\ payload' = server[Get(a.url)]
         /\ ops' = Append(ops, "download")
         /\ fetched' = Append(fetched, Get(a.url))
         /\ UNCHANGED result

\* Lines 186-199: read the artifact's fields, create the staging area and
\* download the payload into it.
Download ==
    /\ InManifest /\ stage = "ArtifactChosen"
    /\ Downloading(Get(artifact), Staged(fs, TmpDir(idx)))
    /\ UNCHANGED <<platform, argv, disk, server, mpc, deduped_manifests, idx, failures,
                   completed_checks, stdout, stderr, rc, doc, package_id, artifact>>

\* Mutant: upper-case hex in the manifest is compared as written.
ChecksumMatches_case_sensitive(actual_sha, sha256) == actual_sha = sha256

\* Lines 188, 201: the comparison of the payload digest with the lowercased
\* sha256 of the artifact
ChecksumMatches(actual_sha, sha256) == ~(actual_sha # LowerHex(sha256))

\* Mutant: after a checksum mismatch the payload is downloaded again.
Verifying_retry(a, actual_sha) ==
    IF ~ChecksumMatches(actual_sha, Get(a.sha256))
       THEN /\ stage' = "ArtifactChosen"
            /\ fs' = Cleanup(fs, TmpDir(idx))
            /\ UNCHANGED result
    ELSE /\ stage' = "ChecksumVerified"
         /\ UNCHANGED <<result, fs>>

Verifying(a, actual_sha) ==
    IF ~ChecksumMatches(actual_sha, Get(a.sha256))
       THEN /\ stage' = "Failed"
            /\ result' = Fail(failure_message(CurrentPath, Get(package_id),
                    [Reason("checksum mismatch for") EXCEPT
                        !.url = a.url,
                        !.expected = Some(LowerHex(Get(a.sha256))),
                        !.actual = Some(actual_sha)],
                    HINT_CHECKSUM, <<>>))
            /\ fs' = Cleanup(fs, TmpDir(idx))
    ELSE /\ stage' = "ChecksumVerified"
         /\ UNCHANGED <<result, fs>>

\* Lines 200-210: hash the payload and compare with the expected digest.
Verify ==
    /\ InManifest /\ stage = "Downloaded"
    /\ ops' = Append(ops, "sha256")
    /\ Verifying(Get(artifact), sha256_file(Get(payload)))
    /\ UNCHANGED <<platform, argv, disk, server, mpc, deduped_manifests, idx, failures,
                   completed_checks, stdout, stderr, rc, doc, package_id, artifact,
                   payload, fetched>>

StripComponents(a) == IF IsSome(a.strip_components) THEN Get(a.strip_components) ELSE 0
HasArchive(a) == IsSome(a.archive) /\ Get(a.archive) # ""

\* Lines 212-220: what the installation does to the filesystem
Install(f, a, i) ==
    IF HasArchive(a)
       THEN extract_archive(f, Get(payload), InstallRoot(i), Get(a.archive),
                            StripComponents(a))
    ELSE CopyBinaries(Done(f), PayloadPath(i), InstallRoot(i), a.binaries)

Installed(r) ==
    IF ~r.ok
       THEN /\ stage' = "Failed"
            /\ result' = Fail(crash_message(CurrentPath, r.exc))
            /\ fs' = Cleanup(r.fs, TmpDir(idx))
    ELSE /\ stage' = "Extracted"
         /\ fs' = r.fs
         /\ UNCHANGED result

\* Lines 212-220: unpack the archive, or copy the bare binary to every
\* declared path.
Extract ==
    /\ InManifest /\ stage = "ChecksumVerified"
    /\ ops' = Append(ops, IF HasArchive(Get(artifact)) THEN "extract" ELSE "copy")
    /\ Installed(Install(fs, Get(artifact), idx))
    /\ UNCHANGED <<platform, argv, disk, server, mpc, deduped_manifests, idx, failures,
                   completed_checks, stdout, stderr, rc, doc, package_id, artifact,
                   payload, fetched>>

Checked(a, missing) ==
    IF missing # <<>>
       THEN /\ stage' = "Failed"
            /\ result' = Fail(failure_message(CurrentPath, Get(package_id),
                    [Reason("missing extracted binaries for target=") EXCEPT
                        !.target = Some(ArtifactTarget(a)),
                        !.missing = missing],
                    HINT_MISSING, JoinWith(missing, <<", ">>)))
            /\ fs' = Cleanup(fs, TmpDir(idx))
    ELSE /\ stage' = "BinariesVerified"
         /\ UNCHANGED <<result, fs>>

\* Lines 222-239: every declared binary must be a regular file.
CheckBinaries ==
    /\ InManifest /\ stage = "Extracted"
    /\ ops' = Append(ops, "check")
    /\ Checked(Get(artifact),
               MissingBinaries(fs, InstallRoot(idx), Get(artifact).binaries))
    /\ UNCHANGED <<platform, argv, disk, server, mpc, deduped_manifests, idx, failures,
                   completed_checks, stdout, stderr, rc, doc, package_id, artifact,
                   payload, fetched>>

\* Line 241 and the end of the `with` block: remove the staging area and
\* return success.
Finish ==
    /\ InManifest /\ stage = "BinariesVerified"
    /\ stage' = "Succeeded"
    /\ fs' = Cleanup(fs, TmpDir(idx))
    /\ result' = Ok(success_message(CurrentPath, Get(package_id),
                                    ArtifactTarget(Get(artifact))))
    /\ UNCHANGED <<platform, argv, disk, server, mpc, deduped_manifests, idx, failures,
                   completed_checks, stdout, stderr, rc, doc, package_id, artifact,
                   payload, ops, fetched>>

\* ------------------------------------------------------------------ app_bundle_canary
CANARY_ENTRY == <<"Neovide.app", "/", "Contents", "/", "MacOS", "/", "neovide">>
CanaryZip == Payload("zip", <<Member(CANARY_ENTRY, "reg", FALSE)>>)
CanaryLine(status, exc) ==
    [path |-> <<>>, package_id |-> <<>>, status |-> status,
     reason |-> [Reason("") EXCEPT !.exc = exc], failing_binary |-> <<>>, hint |-> None]

CanaryExpected ==
    Append(CanaryTmpDir, INSTALL)
    \o << <<"Neovide.app">>, <<"Contents">>, <<"MacOS">>, <<"neovide">> >>

\* Lines 255-265 and 319-322: the (ok, message) pair of the canary, r being
\* the outcome of its extraction
CanaryResult(r) ==
    IF ~r.ok
       THEN Fail(CanaryLine("app-bundle-canary: target=macOS reason=crashed", r.exc))
    ELSE IF ~IsFile(r.fs, CanaryExpected)
       THEN Fail(CanaryLine("app-bundle-canary: target=macOS reason=missing Neovide.app/Contents/MacOS/neovide after extraction", ""))
    ELSE Ok(CanaryLine("app-bundle-canary: target=macOS status=verified Neovide.app/Contents/MacOS/neovide extraction", ""))

\* Lines 245-254: the canary's staging area, its zip and the extraction
CanaryExtractIn(staged) ==
    IF ~staged.ok THEN staged
    ELSE extract_archive(OpenWrite(staged.fs,
                                   Append(CanaryTmpDir, <<"neovide-style.zip">>)).fs,
                         CanaryZip, Append(CanaryTmpDir, INSTALL), "zip", 0)
CanaryExtract(f) == CanaryExtractIn(Staged(f, CanaryTmpDir))

\* app_bundle_canary() called from main: the (ok, message) pair and the
\* filesystem afterwards
app_bundle_canary(f) ==
    [fs |-> Cleanup(CanaryExtract(f).fs, CanaryTmpDir),
     result |-> CanaryResult(CanaryExtract(f))]

\* ------------------------------------------------------------------ main
RECURSIVE Dedup_last_occurrence(_, _)
\* Mutant: of a repeated argument the last occurrence is kept.
Dedup_last_occurrence(args, seen) ==
    IF args = <<>> THEN <<>>
    ELSE IF \E i \in 2..Len(args) : args[i] = Head(args)
       THEN Dedup_last_occurrence(Tail(args), seen)
    ELSE <<Head(args)>> \o Dedup_last_occurrence(Tail(args), seen)

RECURSIVE Dedup(_, _)
\* lines 286-293: the arguments in order of first occurrence
Dedup(args, seen) ==
    IF args = <<>> THEN <<>>
    ELSE IF Head(args) \in seen THEN Dedup(Tail(args), seen)
    ELSE <<Head(args)>> \o Dedup(Tail(args), seen \cup {Head(args)})

MessageLine(m) == [line |-> "message", message |-> m]

\* Mutant: a command line without manifests and without canary is accepted.
MainStart_no_usage_error ==
    /\ mpc = "start"
    /\ mpc' = "loop"
    /\ deduped_manifests' = Dedup(argv.manifests, {})
    /\ UNCHANGED <<rc, stderr>>
    /\ UNCHANGED <<platform, argv, disk, server, fs, idx, failures, completed_checks,
                   stdout, stage, doc, package_id, artifact, payload, result, ops, fetched>>

\* Lines 281-296: parse the arguments, deduplicate the manifest paths.
MainStart ==
    /\ mpc = "start"
    /\ IF argv.manifests = <<>> /\ ~argv.app_bundle_canary
          THEN /\ mpc' = "exit"
               /\ rc' = Some(2)
               /\ stderr' = Append(stderr, [line |-> "usage",
                      message |-> "provide at least one manifest path or --app-bundle-canary"])
               /\ UNCHANGED deduped_manifests
       ELSE /\ mpc' = "loop"
            /\ deduped_manifests' = Dedup(argv.manifests, {})
            /\ UNCHANGED <<rc, stderr>>
    /\ UNCHANGED <<platform, argv, disk, server, fs, idx, failures, completed_checks,
                   stdout, stage, doc, package_id, artifact, payload, result, ops, fetched>>

\* Mutant: a failed manifest ends the loop.
Record_stop_on_failure ==
    /\ InManifest /\ stage \in {"Succeeded", "Failed"}
    /\ IF Get(result).ok
          THEN /\ stdout' = Append(stdout, MessageLine(Get(result).message))
               /\ completed_checks' = completed_checks + 1
               /\ idx' = idx + 1
               /\ UNCHANGED failures
       ELSE /\ failures' = Append(failures, Get(result).message)
            /\ idx' = Len(deduped_manifests) + 1
            /\ UNCHANGED <<stdout, completed_checks>>
    /\ stage' = "idle"
    /\ doc' = None /\ package_id' = None /\ artifact' = None /\ payload' = None
    /\ result' = None /\ ops' = <<>>
    /\ UNCHANGED <<platform, argv, disk, server, fs, mpc, deduped_manifests, stderr, rc, fetched>>

\* Lines 312-316: print a success, collect a failure, go to the next manifest.
Record ==
    /\ InManifest /\ stage \in {"Succeeded", "Failed"}
    /\ IF Get(result).ok
          THEN /\ stdout' = Append(stdout, MessageLine(Get(result).message))
               /\ completed_checks' = completed_checks + 1
               /\ UNCHANGED failures
       ELSE /\ failures' = Append(failures, Get(result).message)
            /\ UNCHANGED <<stdout, completed_checks>>
    /\ idx' = idx + 1
    /\ stage' = "idle"
    /\ doc' = None /\ package_id' = None /\ artifact' = None /\ payload' = None
    /\ result' = None /\ ops' = <<>>
    /\ UNCHANGED <<platform, argv, disk, server, fs, mpc, deduped_manifests, stderr, rc, fetched>>

LoopDone == mpc = "loop" /\ idx > Len(deduped_manifests) /\ stage = "idle"

CanaryRecord(c) ==
    /\ fs' = c.fs
    /\ IF Get(c.result).ok
          THEN /\ stdout' = Append(stdout, MessageLine(Get(c.result).message))
               /\ completed_checks' = completed_checks + 1
               /\ UNCHANGED failures
       ELSE /\ failures' = Append(failures, Get(c.result).message)
            /\ UNCHANGED <<stdout, completed_checks>>

\* Lines 318-328: the app-bundle canary, when requested.
Canary ==
    /\ LoopDone /\ argv.app_bundle_canary
    /\ CanaryRecord(app_bundle_canary(fs))
    /\ mpc' = "report"
    /\ UNCHANGED <<platform, argv, disk, server, deduped_manifests, idx, stderr, rc,
                   stage, doc, package_id, artifact, payload, result, ops, fetched>>

\* Mutant: the failures are printed but the exit code is 0.
Report_exit_zero ==
    /\ mpc = "report" \/ (LoopDone /\ ~argv.app_bundle_canary)
    /\ mpc' = "exit"
    /\ rc' = Some(0)
    /\ IF failures # <<>>
          THEN /\ stderr' = stderr \o <<[line |-> "header",
                                         message |-> "Smoke-install checks failed:"]>>
                              \o [i \in 1..Len(failures) |->
                                     [line |-> "failure", message |-> failures[i]]]
               /\ UNCHANGED stdout
       ELSE /\ stdout' = Append(stdout,
                   [line |-> "summary", completed |-> completed_checks,
                    manifests |-> Len(deduped_manifests),
                    canary |-> argv.app_bundle_canary])
            /\ UNCHANGED stderr
    /\ UNCHANGED <<platform, argv, disk, server, fs, deduped_manifests, idx, failures,
                   completed_checks, stage, doc, package_id, artifact, payload, result,
                   ops, fetched>>

\* Lines 330-340: report the failures, or the summary, and return.
Report ==
    /\ mpc = "report" \/ (LoopDone /\ ~argv.app_bundle_canary)
    /\ mpc' = "exit"
    /\ IF failures # <<>>
          THEN /\ stderr' = stderr \o <<[line |-> "header",
                                         message |-> "Smoke-install checks failed:"]>>
                              \o [i \in 1..Len(failures) |->
                                     [line |-> "failure", message |-> failures[i]]]
               /\ rc' = Some(1)
               /\ UNCHANGED stdout
       ELSE /\ stdout' = Append(stdout,
                   [line |-> "summary", completed |-> completed_checks,
                    manifests |-> Len(deduped_manifests),
                    canary |-> argv.app_bundle_canary])
            /\ rc' = Some(0)
            /\ UNCHANGED stderr
    /\ UNCHANGED <<platform, argv, disk, server, fs, deduped_manifests, idx, failures,
                   completed_checks, stage, doc, package_id, artifact, payload, result,
                   ops, fetched>>

Next ==
    \/ MainStart
    \/ Load
    \/ Choose
    \/ Download
    \/ Verify
    \/ Extract
    \/ CheckBinaries
    \/ Finish
    \/ Record
    \/ Canary
    \/ Report

\* ------------------------------------------------------------------ inputs
SeqsUpTo(S, n) == UNION {[1..k -> S] : k \in 0..n}

Binary(path) == [name |-> "demo", path |-> path]
Artifact(target, url, sha256, archive, strip_components, binaries) ==
    [target |-> target, url |-> url, sha256 |-> sha256, archive |-> archive,
     strip_components |-> strip_components, binaries |-> binaries]
Doc(name, version, artifacts) == [name |-> name, version |-> version, artifacts |-> artifacts]
Args(manifests, require, canary) ==
    [manifests |-> manifests, require_runner_target |-> require,
     app_bundle_canary |-> canary]

URL(i) == "https://example.invalid/" \o ToString(i)
Upper(d) == [d EXCEPT !.upper = TRUE]

LINUX == "x86_64-unknown-linux-gnu"
DARWIN == "aarch64-apple-darwin"
M1 == <<"demo", "/", "1.0.0", ".toml">>
M2 == <<"tool", ".toml">>

RawPayload == Payload("raw", <<>>)
ZipEmpty == Payload("zip", <<>>)
ZipA == Payload("zip", <<Member(<<"a">>, "reg", FALSE)>>)
ZipDirThenFile == Payload("zip", <<Member(<<"a", "/">>, "reg", FALSE),
                                   Member(<<"a", "/", "a">>, "reg", FALSE)>>)
ZipConflict == Payload("zip", <<Member(<<"a">>, "reg", FALSE),
                                Member(<<"a", "/", "a">>, "reg", FALSE)>>)
TarExec == Payload("gz", <<Member(<<"a", "/", "a">>, "reg", TRUE)>>)

\* Everything but the inputs: the state when main is entered.
Start ==
    /\ mpc = "start"
    /\ deduped_manifests = <<>>
    /\ idx = 1
    /\ failures = <<>>
    /\ completed_checks = 0
    /\ stdout = <<>>
    /\ stderr = <<>>
    /\ rc = None
    /\ stage = "idle"
    /\ doc = None /\ package_id = None /\ artifact = None /\ payload = None
    /\ result = None
    /\ ops = <<>>
    /\ fetched = <<>>

BareA ==
    Artifact(Some(LINUX), Some(URL(1)), Some(sha256_file(RawPayload)), None, None,
             <<Binary(<<"a">>)>>)
ZipTwo ==
    Artifact(Some(DARWIN), Some(URL(1)), Some(Upper(sha256_file(ZipA))), Some("zip"),
             Some(0), <<Binary(<<"a">>), Binary(<<"a", "/", "a">>)>>)
BinArchive ==
    Artifact(None, Some(URL(1)), Some(sha256_file(RawPayload)), Some("bin"), None,
             <<Binary(<<"a">>)>>)
NoUrl ==
    Artifact(Some(LINUX), None, Some(sha256_file(RawPayload)), None, None,
             <<Binary(<<"a">>)>>)

BatchArtifactLists == {<<>>, <<BareA>>, <<ZipTwo, BareA>>, <<BinArchive>>, <<NoUrl>>}
BatchDocs ==
    {Doc(Some("demo"), Some("1.0.0"), as) : as \in BatchArtifactLists}
    \cup {Doc(Some(" "), Some("1.0.0"), <<BareA>>), Doc(None, None, <<ZipTwo>>)}

\* A batch run of main: up to MaxManifests arguments over two manifest files.
Init ==
    /\ Start
    /\ fs \in {HostFs, NoTmpFs}
    /\ platform = <<"Linux", "x86_64">>
    /\ argv \in {Args(m, r, c) : m \in SeqsUpTo({M1, M2}, MaxManifests),
                                 r \in BOOLEAN, c \in BOOLEAN}
    /\ disk \in [{M1, M2} -> {None} \cup {Some(d) : d \in BatchDocs}]
    /\ server \in [{URL(1)} -> {None, Some(RawPayload), Some(ZipA)}]

Spec == Init /\ [][Next]_vars

\* ---- artifact selection: one manifest, every list of artifact targets
Platforms ==
    {<<"Linux", "x86_64">>, <<"Linux", "AMD64">>, <<"Darwin", "arm64">>,
     <<"FreeBSD", "amd64">>, <<"Linux", "riscv64">>}
SelectTargets == {Some(LINUX), Some(DARWIN), Some("x86_64-unknown-linux"), None}
SelectArtifacts(targets) ==
    [i \in 1..Len(targets) |->
        Artifact(targets[i], Some(URL(i)), Some(sha256_file(RawPayload)), None, None,
                 <<Binary(<<"a">>)>>)]

InitSelect ==
    /\ Start
    /\ fs = HostFs
    /\ platform \in Platforms
    /\ argv \in {Args(<<M1>>, r, TRUE) : r \in BOOLEAN}
    /\ disk \in {(M1 :> Some(Doc(Some("demo"), Some("1.0.0"), SelectArtifacts(ts))))
                 @@ (M2 :> None) : ts \in SeqsUpTo(SelectTargets, MaxArtifacts)}
    /\ server = [u \in {URL(i) : i \in 1..(MaxArtifacts + 1)} |-> Some(RawPayload)]

SpecSelect == InitSelect /\ [][Next]_vars

\* ---- installation: one manifest with one artifact, every combination of
\* ---- archive value, strip_components, expected digest and declared binaries
BinaryPaths ==
    {<<"a">>, <<"a", "/", "a">>, <<"/", "a", "a">>, <<".", ".", "/", ".", ".", "/", "a">>}
ArchiveValues == {None, Some("zip"), Some("tar.gz"), Some("tgz"), Some("tar.xz"), Some("bin")}
ServedPayloads == {RawPayload, ZipEmpty, ZipA, ZipDirThenFile, ZipConflict, TarExec}

WrongFor(p) == IF p = ZipEmpty THEN RawPayload ELSE ZipEmpty
DigestsFor(served) ==
    IF served = None THEN {sha256_file(RawPayload)}
    ELSE {sha256_file(Get(served)), Upper(sha256_file(Get(served))),
          sha256_file(WrongFor(Get(served)))}

InitInstall ==
    /\ Start
    /\ fs = HostFs
    /\ platform = <<"Linux", "x86_64">>
    /\ argv = Args(<<M1>>, FALSE, TRUE)
    /\ server \in [{URL(1)} -> {None} \cup {Some(p) : p \in ServedPayloads}]
    /\ disk \in {(M1 :> Some(Doc(Some("demo"), Some("1.0.0"),
                        <<Artifact(None, Some(URL(1)), Some(sha), ar, Some(n), bs)>>)))
                 @@ (M2 :> None) :
                    sha \in DigestsFor(server[URL(1)]),
                    ar \in ArchiveValues,
                    n \in 0..MaxStrip,
                    bs \in {[i \in 1..Len(ps) |-> Binary(ps[i])] :
                                ps \in SeqsUpTo(BinaryPaths, MaxBinaries)}}

SpecInstall == InitInstall /\ [][Next]_vars

\* ---- extraction: one manifest whose archive holds one member, every member
\* ---- name of up to MaxNameLen characters
NameChars == {"/", ".", "a"}
MemberNames == SeqsUpTo(NameChars, MaxNameLen)
TarTypes == {"reg", "dir", "fifo", "badlink"}
OneMemberArchives ==
    {<<Some("zip"), Payload("zip", <<Member(nm, "reg", FALSE)>>)>> : nm \in MemberNames}
    \cup {<<Some(ar), Payload(TarFmt(ar), <<Member(nm, ty, x)>>)>> :
             ar \in TarArchives, nm \in MemberNames,
             ty \in TarTypes, x \in BOOLEAN}

InitExtract ==
    /\ Start
    /\ fs = HostFs
    /\ platform = <<"Linux", "x86_64">>
    /\ argv = Args(<<M1>>, FALSE, TRUE)
    /\ \E ap \in OneMemberArchives, n \in 0..MaxStrip :
          /\ server = [u \in {URL(1)} |-> Some(ap[2])]
          /\ disk = (M1 :> Some(Doc(Some("demo"), Some("1.0.0"),
                          <<Artifact(None, Some(URL(1)), Some(sha256_file(ap[2])), ap[1],
                                     Some(n), <<Binary(<<"a">>)>>)>>)))
                    @@ (M2 :> None)

SpecExtract == InitExtract /\ [][Next]_vars

\* ================================================================== claims
\* What the claims speak about, read off the state.
JustDid(op) == ops # <<>> /\ ops[Len(ops)] = op
Message == Get(result).message
ChosenArtifact == Get(artifact)
Declared == ChosenArtifact.binaries
InstallSegs == Segs(InstallRoot(idx))
UnderInstall(f) == {p \in DOMAIN f : IsPrefix(InstallSegs, p) /\ p # InstallSegs}
\* what the program created or wrote that is not in a staging area
Escaped ==
    {p \in DOMAIN fs : /\ fs[p].origin = "program"
                       /\ \A i \in 1..(MaxManifests + 1) : ~IsPrefix(Segs(TmpDir(i)), p)
                       /\ ~IsPrefix(Segs(CanaryTmpDir), p)}
\* the segments of a name that count: neither empty nor "."
Segments(name) == SelectSeq(SplitSlash(name), LAMBDA s : s # <<>> /\ s # DOT)
\* a name is unsafe when it starts at the root or has a ".." segment
Absolute(name) == name # <<>> /\ name[1] = "/"
HasDotDot(name) == \E i \in 1..Len(Segments(name)) : Segments(name)[i] = DOTDOT
Unsafe(name) == Absolute(name) \/ HasDotDot(name)

\* ---- C1: extract_archive writes or creates a path only under the
\* destination directory, for every archive format, every strip_components
\* and every member name: an absolute member or one with a ".." segment is
\* skipped. Stated on the filesystem: whatever the program wrote while the
\* install root was the destination lies in the staging area, and after the
\* extraction of an unsafe member the install root is empty.
C1_ExtractionStaysUnderDestination ==
    /\ Escaped = {}
    /\ (stage = "Extracted" /\ JustDid("extract")
        /\ \A i \in 1..Len(Get(payload).members) : Unsafe(Get(payload).members[i].name))
       => UnderInstall(fs) = {}

\* ---- C2: a declared binary whose path is absolute or has a ".." segment is
\* never written to and never accepted as present: nothing is created outside
\* the staging area, and no manifest passes the presence check with such a
\* declared path.
C2_DeclaredBinariesStayUnderInstallRoot ==
    /\ Escaped = {}
    /\ stage \in {"BinariesVerified", "Succeeded"}
       => \A i \in 1..Len(Declared) : ~Unsafe(Declared[i].path)

\* ---- C3: the pipeline proceeds past the checksum stage if and only if the
\* artifact's sha256 equals the digest of the payload bytes, compared without
\* regard to case; on a mismatch the failure text holds the url, the expected
\* digest and the actual digest, and neither extraction nor bare-binary copy
\* has been performed: the install root stays empty.
SameDigest(d, e) == d.of = e.of
DigestOfPayload == [of |-> Get(payload), upper |-> FALSE]
PastChecksum == stage \in {"ChecksumVerified", "Extracted", "BinariesVerified", "Succeeded"}
C3_ChecksumGate ==
    /\ PastChecksum => SameDigest(Get(ChosenArtifact.sha256), DigestOfPayload)
    /\ JustDid("sha256") =>
          IF SameDigest(Get(ChosenArtifact.sha256), DigestOfPayload)
             THEN stage = "ChecksumVerified"
          ELSE /\ stage = "Failed"
               /\ ~Get(result).ok
               /\ Message.reason.what = "checksum mismatch for"
               /\ Message.reason.url = ChosenArtifact.url
               /\ Message.reason.expected =
                     Some([of |-> Get(ChosenArtifact.sha256).of, upper |-> FALSE])
               /\ Message.reason.actual = Some(DigestOfPayload)
               /\ UnderInstall(fs) = {}
               /\ Escaped = {}
    /\ (stage = "Failed" /\ ~Get(result).ok
        /\ Message.reason.what = "checksum mismatch for")
       => /\ ops = <<"load", "choose", "download", "sha256">>
          /\ ~SameDigest(Get(ChosenArtifact.sha256), DigestOfPayload)

\* a mismatch was detected and reported
C3_Witness ==
    /\ stage = "Failed" /\ JustDid("sha256")
    /\ ~SameDigest(Get(ChosenArtifact.sha256), DigestOfPayload)
    /\ Message.reason.what = "checksum mismatch for"

\* ---- C4: for a non-empty artifact list and a known triple T, when some
\* artifact has target exactly T, the first such artifact in list order is
\* the one chosen, whatever require_target is; a target that T merely starts
\* with is no match.
Artifacts == Get(doc).artifacts
HasTarget(a, t) == a.target = Some(t)
FirstWithTarget(i, t) ==
    /\ HasTarget(Artifacts[i], t)
    /\ \A j \in 1..(i - 1) : ~HasTarget(Artifacts[j], t)
SelectionMade == doc # None /\ Artifacts # <<>> /\ stage \notin {"idle", "Loaded"}
C4_FirstExactMatch ==
    (SelectionMade /\ runner_target # None) =>
       \A i \in 1..Len(Artifacts) :
          FirstWithTarget(i, Get(runner_target)) =>
             /\ artifact = Some(Artifacts[i])
             /\ JustDid("choose") => stage = "ArtifactChosen"

\* the match is not the first artifact, a later artifact matches too, and
\* the run is strict
C4_Witness ==
    /\ SelectionMade /\ runner_target # None /\ JustDid("choose")
    /\ argv.require_runner_target
    /\ \E i \in 2..Len(Artifacts), j \in 3..Len(Artifacts) :
          /\ i < j
          /\ FirstWithTarget(i, Get(runner_target))
          /\ HasTarget(Artifacts[j], Get(runner_target))
          /\ artifact = Some(Artifacts[i])

\* ---- C5: with require_target false, when no artifact's target equals the
\* resolved triple (or the triple is unknown), the first artifact of the
\* list is chosen whatever its target; it is the one installed (the only url
\* fetched is its url) and the success message names its own target.
NoMatch ==
    runner_target = None
    \/ \A i \in 1..Len(Artifacts) : ~HasTarget(Artifacts[i], Get(runner_target))
OwnTarget(a) == IF a.target = None THEN "unknown" ELSE Get(a.target)
C5_FallbackToFirst ==
    (SelectionMade /\ ~argv.require_runner_target /\ NoMatch) =>
       /\ artifact = Some(Artifacts[1])
       /\ JustDid("choose") => stage = "ArtifactChosen"
       /\ stage \in {"Downloaded", "ChecksumVerified", "Extracted", "BinariesVerified",
                     "Succeeded"}
          => fetched = <<Get(Artifacts[1].url)>>
       /\ stage = "Succeeded" =>
             /\ Get(result).ok
             /\ Message.status = "smoke-install ok"
             /\ Message.reason.what = "via target="
             /\ Message.reason.target = Some(OwnTarget(Artifacts[1]))

\* the fallback installed the first of several artifacts with other targets
C5_Witness ==
    /\ SelectionMade /\ ~argv.require_runner_target /\ NoMatch
    /\ runner_target # None
    /\ stage = "Succeeded"
    /\ Len(Artifacts) >= 2 /\ Artifacts[1].target # None
    /\ Artifacts[1].target # Artifacts[2].target
    /\ Message.reason.target = Artifacts[1].target

\* ---- C6: with require_target true and a known triple T that no artifact
\* has as its target, the manifest fails; the failure names the package
\* identity and says "no artifact matched runner target=T"; nothing is
\* downloaded, hashed, extracted or checked for that manifest.
Identity == <<Get(Get(doc).name), "@", Get(Get(doc).version)>>
C6_StrictNoMatchFails ==
    (SelectionMade /\ argv.require_runner_target /\ runner_target # None /\ NoMatch) =>
       /\ stage = "Failed"
       /\ ~Get(result).ok
       /\ Message.package_id = Identity
       /\ Message.reason.what = "no artifact matched runner target="
       /\ Message.reason.target = runner_target
       /\ artifact = None
       /\ ops = <<"load", "choose">>
       /\ fetched = <<>>
       /\ payload = None
       /\ fs = HostFs

\* a strict run failed although the list holds a target the triple starts with
C6_Witness ==
    /\ SelectionMade /\ argv.require_runner_target /\ runner_target # None /\ NoMatch
    /\ stage = "Failed"
    /\ \E i \in 1..Len(Artifacts) : HasTarget(Artifacts[i], "x86_64-unknown-linux")
    /\ Message.reason.target = Some(LINUX)

\* ---- C7: when the runner has no canonical triple, selection behaves as
\* "no match": with require_target true the manifest fails with a reason that
\* uses the literal "unknown-runner-target" and nothing is downloaded; with
\* require_target false the first artifact is chosen.
C7_UnknownRunnerIsNoMatch ==
    (SelectionMade /\ runner_target = None) =>
       IF argv.require_runner_target
          THEN /\ stage = "Failed"
               /\ ~Get(result).ok
               /\ Message.reason.what = "no artifact matched runner target="
               /\ Message.reason.target = Some("unknown-runner-target")
               /\ fetched = <<>>
       ELSE artifact = Some(Artifacts[1])

\* ---- C8: for strip_components N and a safe entry name, counting the
\* segments that are neither empty nor ".": an entry with N or fewer segments
\* is skipped, nothing is written; an entry with more than N segments is
\* written at exactly its segments with the first N removed (a regular entry
\* as a file, a directory entry as a directory), and nothing else appears
\* under the destination but the directories leading to it.
TheMember == Get(payload).members[1]
StripN == Get(ChosenArtifact.strip_components)
IsZip == ChosenArtifact.archive = Some("zip")
DirEntry(m) == IF IsZip THEN m.name[Len(m.name)] = "/" ELSE m.type = "dir"
Kept(m) == SubSeq(Segments(m.name), StripN + 1, Len(Segments(m.name)))
Leading(rel) == {InstallSegs \o SubSeq(rel, 1, k) : k \in 1..Len(rel)}
C8_StripComponents ==
    (JustDid("extract") /\ Len(Get(payload).members) = 1
     /\ ~Unsafe(TheMember.name) /\ TheMember.type \in {"reg", "dir"}) =>
       /\ stage = "Extracted"
       /\ IF Len(Segments(TheMember.name)) <= StripN
             THEN UnderInstall(fs) = {}
          ELSE /\ UnderInstall(fs) = Leading(Kept(TheMember))
               /\ fs[InstallSegs \o Kept(TheMember)].kind =
                     IF DirEntry(TheMember) THEN "dir" ELSE "file"
               /\ \A p \in Leading(Kept(TheMember)) :
                     p # InstallSegs \o Kept(TheMember) => fs[p].kind = "dir"
       /\ Escaped = {}

\* "a/a" with one component stripped was written as the file "a" of the
\* install root
C8_Witness ==
    /\ JustDid("extract") /\ stage = "Extracted"
    /\ Len(Get(payload).members) = 1
    /\ TheMember.name = <<"a", "/", "a">> /\ TheMember.type = "reg"
    /\ StripN = 1
    /\ UnderInstall(fs) = {Append(InstallSegs, <<"a">>)}
    /\ fs[Append(InstallSegs, <<"a">>)].kind = "file"

\* ---- C9: after extraction every declared binary of the chosen artifact is
\* checked; the check passes only if each one is a regular file at its path
\* under the install root; otherwise there is one failure that lists every
\* missing path in declaration order, names the package identity and carries
\* a hint, and the manifest is not reported as a success.
PresentUnderInstall(f, path) ==
    /\ ~Unsafe(path)
    /\ (InstallSegs \o Segments(path)) \in DOMAIN f
    /\ f[InstallSegs \o Segments(path)].kind = "file"
Absent(f) == SelectSeq(Paths(Declared), LAMBDA q : ~PresentUnderInstall(f, q))
C9_AllMissingBinariesReported ==
    [][(stage = "Extracted" /\ stage' # "Extracted") =>
          IF Absent(fs) = <<>> THEN stage' = "BinariesVerified"
          ELSE /\ stage' = "Failed"
               /\ ~Get(result').ok
               /\ Get(result').message.reason.what = "missing extracted binaries for target="
               /\ Get(result').message.reason.missing = Absent(fs)
               /\ Get(result').message.failing_binary = JoinWith(Absent(fs), <<", ">>)
               /\ Get(result').message.package_id = Get(package_id)
               /\ Get(result').message.hint # None]_vars

\* ---- C10: the staging area is created fresh for each manifest and is gone
\* when the processing of that manifest ends, on every exit path; no two
\* manifests' staging areas exist at the same time.
StagingOf(i) == {p \in DOMAIN fs : IsPrefix(Segs(TmpDir(i)), p)}
Processing == stage \in {"Downloaded", "ChecksumVerified", "Extracted", "BinariesVerified"}
C10_StagingScopedToManifest ==
    /\ \A i \in 1..(MaxManifests + 1) :
          StagingOf(i) # {} => (i = idx /\ mpc = "loop" /\ Processing)
    /\ stage = "Downloaded" =>
          StagingOf(idx) = {Segs(TmpDir(idx)), Segs(PayloadPath(idx)), InstallSegs}
    /\ (stage \in {"idle", "Loaded", "ArtifactChosen", "Succeeded", "Failed"}
        \/ mpc # "loop")
       => \A i \in 1..(MaxManifests + 1) : StagingOf(i) = {}

\* the second manifest is installing after the first one crashed in its
\* extraction
C10_Witness ==
    /\ idx = 2 /\ mpc = "loop" /\ stage = "Extracted"
    /\ StagingOf(2) # {} /\ StagingOf(1) = {}
    /\ Len(failures) = 1
    /\ failures[1].reason.what = "smoke-install crashed"
    /\ failures[1].reason.exc = "Unsupported archive format"

\* ---- C11: in a batch a failure or crash of one manifest never stops the
\* batch: when main returns, every distinct manifest path supplied has
\* exactly one outcome (one success line or one failure record), the canary,
\* when requested, has run as the last check, and the failure records are
\* printed together at the end, in processing order.
Returned == mpc = "exit" /\ rc # Some(2)
Supplied == {argv.manifests[i] : i \in 1..Len(argv.manifests)}
FirstGiven(p) ==
    CHOOSE i \in 1..Len(argv.manifests) :
        argv.manifests[i] = p /\ \A j \in 1..(i - 1) : argv.manifests[j] # p
Printed == SelectSeq(stdout, LAMBDA l : l.line = "message")
SuccessesOf(p) == {i \in 1..Len(Printed) : Printed[i].message.path = p}
FailuresOf(p) == {i \in 1..Len(failures) : failures[i].path = p}
OfCanary(m) == m.path = <<>>
InProcessingOrder(ms) ==
    \A i, j \in 1..Len(ms) :
        i < j => /\ ~OfCanary(ms[i])
                 /\ (~OfCanary(ms[j]) => FirstGiven(ms[i].path) < FirstGiven(ms[j].path))
C11_BatchContinuesAfterFailure ==
    /\ Returned =>
          /\ \A p \in Supplied :
                Cardinality(SuccessesOf(p)) + Cardinality(FailuresOf(p)) = 1
          /\ Cardinality(SuccessesOf(<<>>)) + Cardinality(FailuresOf(<<>>))
                = IF argv.app_bundle_canary THEN 1 ELSE 0
          /\ InProcessingOrder(failures)
          /\ InProcessingOrder([i \in 1..Len(Printed) |-> Printed[i].message])
          /\ failures # <<>> =>
                stderr = <<[line |-> "header", message |-> "Smoke-install checks failed:"]>>
                         \o [i \in 1..Len(failures) |->
                                [line |-> "failure", message |-> failures[i]]]
    /\ mpc # "exit" => stderr = <<>>

\* the first manifest crashed, the second one succeeded and the canary ran
C11_Witness ==
    /\ Returned /\ argv.app_bundle_canary
    /\ Len(deduped_manifests) = 2
    /\ Len(failures) = 1
    /\ failures[1].path = argv.manifests[1]
    /\ failures[1].reason.what = "smoke-install crashed"
    /\ Len(Printed) = 2
    /\ Printed[1].message.path = argv.manifests[2]
    /\ OfCanary(Printed[2].message)

\* ---- C12: duplicate manifest paths are deduplicated before processing:
\* each distinct path string is processed once, in the order of its first
\* occurrence; a path given several times has at most one success line or
\* failure record and counts once in the summary.
ArgumentsRead == mpc \in {"loop", "report", "exit"} /\ rc # Some(2)
Summaries == SelectSeq(stdout, LAMBDA l : l.line = "summary")
C12_DuplicatesProcessedOnce ==
    /\ ArgumentsRead =>
          /\ Len(deduped_manifests) = Cardinality(Supplied)
          /\ \A i \in 1..Len(deduped_manifests) : deduped_manifests[i] \in Supplied
          /\ \A i, j \in 1..Len(deduped_manifests) :
                i < j => FirstGiven(deduped_manifests[i]) < FirstGiven(deduped_manifests[j])
    /\ \A p \in Supplied : Cardinality(SuccessesOf(p)) + Cardinality(FailuresOf(p)) <= 1
    /\ (stage # "idle" /\ InManifest) =>
          Cardinality(SuccessesOf(CurrentPath)) + Cardinality(FailuresOf(CurrentPath)) = 0
    /\ \A i \in 1..Len(Summaries) :
          /\ Summaries[i].manifests = Cardinality(Supplied)
          /\ Summaries[i].completed <= Cardinality(Supplied) + 1

\* M2, M1, M2 were given: M2 and then M1 were processed, the summary counts two
C12_Witness ==
    /\ Returned
    /\ argv.manifests = <<M2, M1, M2>>
    /\ deduped_manifests = <<M2, M1>>
    /\ Len(Summaries) = 1 /\ Summaries[1].manifests = 2
    /\ Cardinality(SuccessesOf(M2)) = 1

\* ---- C13: main returns 0 if and only if every requested check (each
\* distinct manifest, and the canary when requested) passed, and 1 if and
\* only if at least one failed or crashed; on return the successes counted
\* plus the failure records equal the checks requested.
RequestedChecks == Cardinality(Supplied) + (IF argv.app_bundle_canary THEN 1 ELSE 0)
AllPassed ==
    /\ \A p \in Supplied : SuccessesOf(p) # {} /\ FailuresOf(p) = {}
    /\ argv.app_bundle_canary => (SuccessesOf(<<>>) # {} /\ FailuresOf(<<>>) = {})
C13_ExitCode ==
    /\ Returned =>
          /\ rc \in {Some(0), Some(1)}
          /\ rc = Some(0) <=> AllPassed
          /\ rc = Some(1) <=> (\E p \in Supplied \cup {<<>>} : FailuresOf(p) # {})
          /\ completed_checks + Len(failures) = RequestedChecks
          /\ completed_checks = Len(Printed)
    /\ mpc # "exit" => rc = None

\* two checks passed, one failed: exit code 1
C13_Witness ==
    /\ Returned /\ rc = Some(1)
    /\ completed_checks = 2 /\ Len(failures) = 1
    /\ RequestedChecks = 3

\* ---- C14: when any check fails, main enumerates every failure on the
\* error stream and also prints, on the standard stream, a summary line
\* reporting the total number of checks that passed.
FailureLines == SelectSeq(stderr, LAMBDA l : l.line = "failure")
C14_SummaryAlsoOnFailure ==
    (Returned /\ failures # <<>>) =>
       /\ Len(FailureLines) = Len(failures)
       /\ \A i \in 1..Len(failures) : FailureLines[i].message = failures[i]
       /\ Len(Summaries) = 1
       /\ Summaries[1].completed = completed_checks

\* ---- C15: main requires a manifest path or --app-bundle-canary: with
\* neither it ends with a usage error, exit code 2, before any manifest check
\* or canary runs; with the canary and no manifest it runs the canary exactly
\* once, never runs smoke_manifest, and returns 0 when the canary passes.
NothingRequested == argv.manifests = <<>> /\ ~argv.app_bundle_canary
CanaryOnly == argv.manifests = <<>> /\ argv.app_bundle_canary
NoManifestRun ==
    /\ stage = "idle" /\ ops = <<>> /\ fetched = <<>>
    /\ doc = None /\ artifact = None /\ payload = None /\ result = None
C15_UsageErrorOrCanaryOnly ==
    /\ rc = Some(2) => NothingRequested
    /\ (NothingRequested /\ mpc # "start") =>
          /\ mpc = "exit" /\ rc = Some(2)
          /\ stderr = <<[line |-> "usage",
                         message |-> "provide at least one manifest path or --app-bundle-canary"]>>
          /\ stdout = <<>> /\ failures = <<>> /\ completed_checks = 0
          /\ fs \in {HostFs, NoTmpFs}
          /\ NoManifestRun
    /\ CanaryOnly =>
          /\ NoManifestRun
          /\ deduped_manifests = <<>>
          /\ mpc \in {"start", "loop"} => (stdout = <<>> /\ failures = <<>>)
          /\ mpc \in {"report", "exit"} =>
                Cardinality(SuccessesOf(<<>>)) + Cardinality(FailuresOf(<<>>)) = 1
          /\ (Returned /\ SuccessesOf(<<>>) # {}) =>
                /\ rc = Some(0)
                /\ completed_checks = 1
                /\ Len(Summaries) = 1 /\ Summaries[1].manifests = 0

\* the canary alone ran and passed: exit code 0
C15_Witness ==
    /\ CanaryOnly /\ Returned /\ rc = Some(0)
    /\ Len(Printed) = 1 /\ OfCanary(Printed[1].message)
    /\ completed_checks = 1

\* ---- C16: for each manifest the stages run only in the order Loaded,
\* ArtifactChosen, Downloaded, ChecksumVerified, Extracted, BinariesVerified,
\* Succeeded, each at most once (one download attempt, no retry); a stage
\* either advances to the next one or fails; once the manifest is Failed or
\* Succeeded nothing more (download, hashing, extraction, binary check) runs
\* for it.
StageOrder ==
    <<"idle", "Loaded", "ArtifactChosen", "Downloaded", "ChecksumVerified", "Extracted",
      "BinariesVerified", "Succeeded">>
Rank(s) == CHOOSE i \in 1..Len(StageOrder) : StageOrder[i] = s
Terminal == {"Succeeded", "Failed"}
StagesInOrder(o) ==
    /\ Len(o) <= 6
    /\ \A i \in 1..Len(o) :
          o[i] \in (CASE i = 1 -> {"load"} [] i = 2 -> {"choose"} [] i = 3 -> {"download"}
                      [] i = 4 -> {"sha256"} [] i = 5 -> {"extract", "copy"}
                      [] OTHER -> {"check"})
Crashed(m) == m.reason.what = "smoke-install crashed"
ValidationReasons ==
    {"no artifacts available for smoke-install", "no artifact matched runner target=",
     "checksum mismatch for", "missing extracted binaries for target="}
RaisedText ==
    IF disk[CurrentPath] = None THEN {"TOMLDecodeError"}
    ELSE IF artifact = None THEN {}
    ELSE IF ChosenArtifact.url = None \/ ChosenArtifact.sha256 = None THEN {"KeyError"}
    ELSE IF ops = <<"load", "choose">> THEN {"FileNotFoundError"}
    ELSE IF JustDid("download") THEN {"URLError"}
    ELSE IF JustDid("extract") \/ JustDid("copy")
       THEN {"Unsupported archive format", "ReadError", "BadZipFile", "FileExistsError",
             "IsADirectoryError", "FileNotFoundError", "KeyError", "SameFileError"}
    ELSE {}
C17_CrashBecomesOneFailureRecord ==
    /\ (InManifest /\ stage = "Failed") =>
          /\ ~Get(result).ok
          /\ Crashed(Message) <=> RaisedText # {}
          /\ Crashed(Message) =>
                /\ Message.reason.exc \in RaisedText
                /\ Message.path = CurrentPath
                /\ Message.status = "smoke-install failed"
          /\ ~Crashed(Message) =>
                /\ Message.reason.what \in ValidationReasons
                /\ Message.reason.exc = ""
    /\ \A i \in 1..Len(failures) :
          ~OfCanary(failures[i]) =>
             /\ Cardinality(FailuresOf(failures[i].path)) = 1
             /\ Crashed(failures[i]) <=> failures[i].reason.exc # ""
             /\ Crashed(failures[i]) \/ failures[i].reason.what \in ValidationReasons

\* a manifest naming an unsupported archive crashed in extraction and was
\* recorded once
C17_Witness ==
    /\ Len(failures) >= 1
    /\ Crashed(failures[1])
    /\ failures[1].reason.exc = "Unsupported archive format"
    /\ Cardinality(FailuresOf(failures[1].path)) = 1
    /\ mpc = "exit"

\* ---- C18: every failure line main reports, for any failing check of the
\* run, is self-contained: it holds the package identity (name@version, or
\* the parent-directory@file-stem fallback when name or version is absent or
\* blank) and a remediation hint.
HasText(o) == o # None /\ Get(o) \notin {"", " "}
IdentityOf(p) ==
    IF disk[p] # None /\ HasText(Get(disk[p]).name) /\ HasText(Get(disk[p]).version)
       THEN <<Get(Get(disk[p]).name), "@", Get(Get(disk[p]).version)>>
    ELSE fallback_manifest_identifier(p)
C18_FailureLinesSelfContained ==
    \A k \in 1..Len(FailureLines) :
       /\ FailureLines[k].message.package_id # <<>>
       /\ FailureLines[k].message.hint # None
       /\ FailureLines[k].message.path \in Supplied
       /\ FailureLines[k].message.package_id = IdentityOf(FailureLines[k].message.path)

\* ---- C19: the app-bundle canary: extracting a zip whose only entry is the
\* file <App>.app/Contents/MacOS/<tool>, with strip_components 0, produces
\* exactly that file, as an executable regular file, at the same relative
\* path under the destination root, and the canary reports success only in
\* that case.
CanaryRoot == Segs(Append(CanaryTmpDir, INSTALL))
CanaryEntry == << <<"Neovide.app">>, <<"Contents">>, <<"MacOS">>, <<"neovide">> >>
ExactlyTheEntry(f) ==
    /\ {p \in DOMAIN f : IsPrefix(CanaryRoot, p) /\ p # CanaryRoot}
          = {CanaryRoot \o SubSeq(CanaryEntry, 1, k) : k \in 1..Len(CanaryEntry)}
    /\ f[CanaryRoot \o CanaryEntry].kind = "file"
    /\ f[CanaryRoot \o CanaryEntry].x
    /\ \A k \in 1..(Len(CanaryEntry) - 1) :
          f[CanaryRoot \o SubSeq(CanaryEntry, 1, k)].kind = "dir"
C19_CanaryExtractsExecutable ==
    [][(mpc = "loop" /\ mpc' = "report") =>
          /\ CanaryExtract(fs).ok => ExactlyTheEntry(CanaryExtract(fs).fs)
          /\ Len(stdout') > Len(stdout) =>
                (CanaryExtract(fs).ok /\ ExactlyTheEntry(CanaryExtract(fs).fs))]_vars

\* ---- C20: a chosen artifact whose archive value is present but is none of
\* tar.gz, tgz, tar.xz, zip (the value "bin" included) is a configuration
\* error: the manifest fails with an unsupported-archive-format failure of
\* its own, not the catch-all for unexpected crashes, and no extraction is
\* attempted: nothing is written to the install root.
SupportedArchives == {"tar.gz", "tgz", "tar.xz", "zip"}
UnsupportedArchive ==
    /\ artifact # None
    /\ ChosenArtifact.archive # None
    /\ Get(ChosenArtifact.archive) \notin SupportedArchives \cup {""}
C20_UnsupportedArchiveIsConfigurationError ==
    UnsupportedArchive =>
       /\ stage \notin {"Extracted", "BinariesVerified", "Succeeded"}
       /\ UnderInstall(fs) = {}
       /\ (stage = "Failed" /\ JustDid("extract")) =>
             /\ ~Get(result).ok
             /\ ~Crashed(Message)
             /\ Message.hint # Some(HINT_CRASH)

====
